---------------------------- MODULE Spec2Model ----------------------------
(***************************************************************************)
(* A model of rust_tuner: the pitch engine (src/src/tuner.rs), the audio   *)
(* callback (src/src/audio.rs) and the main loop (src/src/main.rs).        *)
(*                                                                         *)
(* Numbers.  The program computes in f32; the model computes in fixed      *)
(* point.  A frequency is an integer number of 1/FreqScale Hz, a spectral  *)
(* magnitude an integer number of 1/MagScale, a pitch interval an integer  *)
(* number of cents.  log2 and powf are computed from the table Pow2Table   *)
(* of 2^(k/12), exact at every semitone and interpolated between two.      *)
(*                                                                         *)
(* Samples.  A sample is an integer: 0 is a sample of amplitude zero,      *)
(* k > 0 is the (non-zero) k-th sample the device captured.  A Vec<f32> is *)
(* a sequence of samples, stored run-length encoded (a block of the device *)
(* is one run): the operators SLen, SConcat, SSub below are Len, \o and    *)
(* SubSeq on the vector the runs stand for.                                *)
(***************************************************************************)
EXTENDS Integers, Sequences, FiniteSets, TLC

VARIABLES
    sample_rate,    \* Tuner.sample_rate, from AudioCapture::sample_rate
    channel,        \* the crossbeam channel (tx, rx): blocks in flight, oldest first
    audio_buffer,   \* main: audio_buffer
    ui_state,       \* main: ui_state (UiState)
    pc,             \* main: position of the main loop
    sent,           \* history: number of blocks the callback has enqueued
    stream,         \* history: every sample enqueued so far, in enqueue order
    recvd,          \* history: number of blocks the main loop has received
    taken,          \* history: number of samples the main loop has appended
    passes,         \* history: number of detection passes run
    passInput,      \* history: the buffer the last pass handed to detect_frequency
    window,         \* history: the samples the last pass windowed and transformed
    detected,       \* history: what detect_frequency returned in the last pass
    keys,           \* history: number of key presses handled
    call,           \* harness of the pure functions: the arguments
    ret             \* harness of the pure functions: the result

vars == <<sample_rate, channel, audio_buffer, ui_state, pc, sent, stream, recvd, taken,
          passes, passInput, window, detected, keys, call, ret>>

mainVars == <<sample_rate, channel, audio_buffer, ui_state, pc, sent, stream, recvd, taken,
              passes, passInput, window, detected, keys>>

---------------------------------------------------------------------------
(* Option<T>: None is the empty sequence, Some(x) the sequence <<x>>.      *)

None == <<>>

Some(x) == <<x>>

---------------------------------------------------------------------------
(* Vec<f32>, run-length encoded.  A run [first, len, step] stands for the  *)
(* len samples first, first + step, ..., first + step * (len - 1); a       *)
(* vector is a sequence of non-empty runs, none of which continues the one *)
(* before it, so that equal vectors have equal encodings.                  *)

\* n samples of amplitude zero.
ZeroRun(n) == [first |-> 0, len |-> n, step |-> 0]

\* The n captured samples k, k + 1, ..., k + n - 1.
ToneRun(k, n) == [first |-> k, len |-> n, step |-> 1]

Joinable(a, b) == a.step = b.step /\ b.first = a.first + a.step * a.len

RECURSIVE SLen(_)
SLen(v) == IF v = <<>> THEN 0 ELSE v[1].len + SLen(Tail(v))

\* v \o w
SConcat(v, w) ==
    IF v = <<>> THEN w
    ELSE IF w = <<>> THEN v
    ELSE LET x == v[Len(v)]
             y == w[1]
         IN  IF Joinable(x, y)
             THEN SubSeq(v, 1, Len(v) - 1) \o <<[x EXCEPT !.len = x.len + y.len]>> \o Tail(w)
             ELSE v \o w

\* The first n samples of v.
RECURSIVE STake(_, _)
STake(v, n) ==
    IF n <= 0 \/ v = <<>> THEN <<>>
    ELSE IF v[1].len <= n THEN <<v[1]>> \o STake(Tail(v), n - v[1].len)
    ELSE <<[v[1] EXCEPT !.len = n]>>

\* v without its first n samples.
RECURSIVE SDrop(_, _)
SDrop(v, n) ==
    IF v = <<>> THEN <<>>
    ELSE IF n <= 0 THEN v
    ELSE IF v[1].len <= n THEN SDrop(Tail(v), n - v[1].len)
    ELSE <<[v[1] EXCEPT !.first = @ + v[1].step * n, !.len = @ - n]>> \o Tail(v)

\* SubSeq(v, m, n)
SSub(v, m, n) == STake(SDrop(v, m - 1), n - m + 1)

\* Every sample of v times the coefficient c >= 0.
SScale(v, c) == IF c = 0 /\ v # <<>> THEN <<ZeroRun(SLen(v))>> ELSE v

\* Every sample of v has amplitude zero.
SAllZero(v) == \A i \in 1..Len(v) : v[i].first = 0

---------------------------------------------------------------------------
(* Fixed-point arithmetic standing for f32.                                *)

FreqScale == 100

MagScale == 200

\* 2^(k/12) * 1000 for k = 0..12
Pow2Table == <<1000, 1059, 1122, 1189, 1260, 1335, 1414, 1498, 1587, 1682, 1782, 1888, 2000>>

RECURSIVE Pow2(_)
Pow2(n) == IF n <= 0 THEN 1 ELSE 2 * Pow2(n - 1)

\* Rust's integer `/`: the quotient truncated toward zero.
TruncDiv(a, b) == IF a >= 0 THEN a \div b ELSE -((-a) \div b)

\* Rust's integer `%`: the remainder has the sign of the dividend.
TruncRem(a, b) == a - b * TruncDiv(a, b)

\* x * 2^(s/12): `x * 2.0_f32.powf(s as f32 / 12.0)`, s an integer.
MulPow2(x, s) ==
    LET o == s \div 12
        k == s % 12
        n == x * Pow2Table[k + 1]
    IN  IF o >= 0 THEN (n * Pow2(o) + 500) \div 1000
        ELSE (n + 500 * Pow2(-o)) \div (1000 * Pow2(-o))

\* f and g scaled by powers of two until g <= f < 2g; e is the exponent taken out.
RECURSIVE Normalise(_, _, _)
Normalise(f, g, e) ==
    IF f < g THEN Normalise(2 * f, g, e - 1)
    ELSE IF f >= 2 * g THEN Normalise(f, 2 * g, e + 1)
    ELSE <<f, g, e>>

\* 1200 * log2(f / g) in cents, for f, g > 0: `1200.0 * (f / g).log2()`.
Log2Cents(f, g) ==
    LET nm == Normalise(f, g, 0)
        nf == nm[1]
        ng == nm[2]
        k  == CHOOSE j \in 0..11 : /\ ng * Pow2Table[j + 1] <= nf * 1000
                                   /\ nf * 1000 < ng * Pow2Table[j + 2]
        dT == Pow2Table[k + 2] - Pow2Table[k + 1]
        part == (((nf * 1000 - ng * Pow2Table[k + 1]) \div dT) * 100) \div ng
    IN  1200 * nm[3] + 100 * k + part

\* f32::round of c / 100: to the nearest integer, halves away from zero.
Round100(c) == IF c >= 0 THEN (c + 50) \div 100 ELSE -((50 - c) \div 100)

---------------------------------------------------------------------------
(* src/src/tuner.rs                                                        *)

NOTES == <<"A", "A#", "B", "C", "C#", "D", "D#", "E", "F", "F#", "G", "G#">>

fft_size == 4096

\* NOTES.iter().position(|&n| n == note_name).unwrap_or(0)
NotePosition(note_name) ==
    IF \E i \in 1..Len(NOTES) : NOTES[i] = note_name
    THEN (CHOOSE i \in 1..Len(NOTES) : NOTES[i] = note_name) - 1
    ELSE 0

\* The octave of a rounded semitone offset: `4 + (rounded_semitones + 9) / 12`.
OctaveOf(rounded_semitones) == 4 + TruncDiv(rounded_semitones + 9, 12)

\* The semitone offset of a note: `(octave - 4) * 12 + (note_index - 9)`.
SemitonesOf(note_index, octave) == (octave - 4) * 12 + (note_index - 9)

frequency_to_note(frequency, a4_freq) ==
    LET cents_from_a4 == Log2Cents(frequency, a4_freq)
        rounded_semitones == Round100(cents_from_a4)
        octave == OctaveOf(rounded_semitones)
        note_index == (TruncRem(rounded_semitones, 12) + 12) % 12
        note_name == NOTES[note_index + 1]
        target_freq == MulPow2(a4_freq, rounded_semitones)
        deviation_cents == Log2Cents(frequency, target_freq)
    IN  <<note_name, octave, deviation_cents>>

note_name_to_frequency(note_name, octave, a4_freq) ==
    LET note_index == NotePosition(note_name)
        semitones_from_a4 == SemitonesOf(note_index, octave)
    IN  MulPow2(a4_freq, semitones_from_a4)


RECURSIVE GCD(_, _)
GCD(a, b) == IF b = 0 THEN a ELSE GCD(b, a % b)

\* a / c in units of 1/FreqScale, rounded to nearest (a >= 0, c > 0).
ScaleDiv(a, c) == (a \div c) * FreqScale + ((a % c) * FreqScale + c \div 2) \div c

\* The Hann coefficient of sample `index` of `size`: zero at both ends of the
\* window and positive inside (1 stands for every positive coefficient).
hann_window(index, size) == IF index = 0 \/ index = size - 1 THEN 0 ELSE 1

\* `samples[..self.fft_size]`, each sample times its Hann coefficient (requires
\* SLen(samples) >= fft_size): the coefficient is the same from index 1 to
\* fft_size - 2.
Windowed(samples) ==
    SConcat(SConcat(SScale(SSub(samples, 1, 1), hann_window(0, fft_size)),
                    SScale(SSub(samples, 2, fft_size - 1), hann_window(1, fft_size))),
            SScale(SSub(samples, fft_size, fft_size), hann_window(fft_size - 1, fft_size)))

\* A spectrum is the magnitude (`norm()`) of each of the fft_size bins, 0-based.
\* SpectrumAt is the spectrum of a real signal with magnitudes prev, curr, next
\* at bins bin-1, bin, bin+1 (and at their mirror images) and `rest` elsewhere.
SpectrumAt(bin, prev, curr, next, rest) ==
    [i \in 0..(fft_size - 1) |->
        LET j == IF i < fft_size \div 2 THEN i ELSE fft_size - i
        IN  IF j = bin THEN curr
            ELSE IF j = bin - 1 THEN prev
            ELSE IF j = bin + 1 THEN next
            ELSE rest]

ZeroSpectrum == [i \in 0..(fft_size - 1) |-> 0]

\* An iteration of the peak loop that also takes a bin equal to the maximum so far.
PeakStepLast(mags, acc, i) ==
    IF mags[i] >= acc.max_magnitude
    THEN [max_magnitude |-> mags[i], max_bin |-> i]
    ELSE acc

\* One iteration of the peak loop: `if magnitude > max_magnitude { ... }`.
PeakStep(mags, acc, i) ==
    IF mags[i] > acc.max_magnitude
    THEN [max_magnitude |-> mags[i], max_bin |-> i]
    ELSE acc

\* The iterations lo, lo+1, ..., hi-1 of the peak loop, in that order, from
\* acc (reading acc first keeps the depth of the evaluation logarithmic).
RECURSIVE PeakFold(_, _, _, _)
PeakFold(mags, lo, hi, acc) ==
    IF acc.max_bin < 0 \/ hi <= lo THEN acc
    ELSE IF hi = lo + 1 THEN PeakStep(mags, acc, lo)
    ELSE LET mid == (lo + hi) \div 2
         IN  PeakFold(mags, mid, hi, PeakFold(mags, lo, mid, acc))

\* `for (i, complex) in complex_samples.iter().enumerate().take(fft_size / 2)`
PeakSearch(mags) ==
    PeakFold(mags, 0, fft_size \div 2, [max_magnitude |-> 0, max_bin |-> 0])

refine_frequency(rate, fft_result, bin, rough_freq) ==
    LET len == Cardinality(DOMAIN fft_result) IN
    IF bin = 0 \/ bin >= len \div 2 - 1 THEN rough_freq
    ELSE LET mag_prev == fft_result[bin - 1]
             mag_curr == fft_result[bin]
             mag_next == fft_result[bin + 1]
             denom == mag_prev + mag_curr + mag_next
         IN  IF denom < 1       \* denom < 1e-10
             THEN rough_freq
             ELSE \* bin_center = bin + (mag_next - mag_prev) / (2 * denom)
                  \* result = bin_center * sample_rate / fft_size
                  LET g == GCD(rate, fft_size)
                      num == (2 * denom * bin + (mag_next - mag_prev)) * (rate \div g)
                      den == 2 * denom * (fft_size \div g)
                  IN  ScaleDiv(num, den)

\* The range check with both ends included.
InRangeInclusive(refined_freq) ==
    refined_freq >= 20 * FreqScale /\ refined_freq <= 5000 * FreqScale

\* `refined_freq > 20.0 && refined_freq < 5000.0`
InRange(refined_freq) == refined_freq > 20 * FreqScale /\ refined_freq < 5000 * FreqScale

\* `max_magnitude < 0.01`
BelowFloor(max_magnitude) == max_magnitude * 100 < MagScale

\* detect_frequency from the peak search on: the spectrum is what fft.process left
\* in complex_samples.
Estimate(rate, spectrum) ==
    LET peak == PeakSearch(spectrum) IN
    IF BelowFloor(peak.max_magnitude) THEN None
    ELSE LET freq == ScaleDiv(peak.max_bin * rate, fft_size)
             refined_freq == refine_frequency(rate, spectrum, peak.max_bin, freq)
         IN  IF InRange(refined_freq) THEN Some(refined_freq) ELSE None

\* The samples detect_frequency windows and transforms: `samples[..self.fft_size]`.
AnalysisWindow(samples) == SSub(samples, 1, fft_size)

---------------------------------------------------------------------------
(* Bounds of the model.                                                    *)

\* The callback delivers at most MaxBlocks blocks.
MaxBlocks == 5

\* At most MaxKeys key presses are handled.
MaxKeys == 1

\* The blocks the device delivers: 1024 or 2049 samples of signal, or 2049
\* samples of silence.
BlockKinds ==
    {[len |-> 1024, silent |-> FALSE], [len |-> 2049, silent |-> FALSE],
     [len |-> 2049, silent |-> TRUE]}

\* The sample rates of the device.
SampleRates == {44100}

\* What the transform can make of a window that is not silent: a tone near
\* 441 Hz, noise below the floor.
ToneSpectra == {SpectrumAt(41, 6, 13, 2, 0), SpectrumAt(41, 0, 1, 0, 0)}

KeyCodes == {"Esc", "Left", "Right", "Up", "Down", "Plus", "Minus", "Other"}

---------------------------------------------------------------------------
(* src/src/audio.rs and src/src/main.rs                                    *)

\* fft.process on the windowed samples: a window of zeros has the zero spectrum
\* (the transform is linear); of any other window the model only knows that the
\* result is some spectrum.
Transform(windowed) ==
    IF SAllZero(windowed) THEN {ZeroSpectrum} ELSE ToneSpectra

\* The estimate of every spectrum the transform can return, at every sample rate.
EstimateOf ==
    [rate \in SampleRates |->
        [spectrum \in ToneSpectra \union {ZeroSpectrum} |-> Estimate(rate, spectrum)]]

\* `sender.try_send(samples)` on the channel of crossbeam_channel::unbounded():
\* the channel is never full, the block is enqueued.
TrySend(ch, samples) == Append(ch, samples)

\* A receive that takes the newest block instead of the oldest.
TryRecvNewest(ch) ==
    IF ch = <<>> THEN None
    ELSE Some([samples |-> ch[Len(ch)], rest |-> SubSeq(ch, 1, Len(ch) - 1)])

\* `rx.try_recv()`: Err (None) on an empty channel, else the oldest block, which
\* leaves the channel.
TryRecv(ch) == IF ch = <<>> THEN None ELSE Some([samples |-> Head(ch), rest |-> Tail(ch)])

\* The trigger at 4096 samples instead of above.
ShouldDetectAtThreshold(len) == len >= 4096

\* `audio_buffer.len() > 4096`
ShouldDetect(len) == len > 4096

\* A trim that keeps the oldest 2048 samples instead of the most recent.
DrainedOldest(buf) == SSub(buf, 1, 2048)

\* A trim that removes nothing.
Undrained(buf) == buf

\* `audio_buffer.drain(0..audio_buffer.len().saturating_sub(2048))`
Drained(buf) ==
    LET n == IF SLen(buf) >= 2048 THEN SLen(buf) - 2048 ELSE 0
    IN  SSub(buf, n + 1, SLen(buf))

\* The branch `if let Some(freq) = ...` of the pass.
ReportSome(ui, freq) ==
    LET nt == frequency_to_note(freq, ui.a4_freq)
        target_freq == note_name_to_frequency(ui.target_note, ui.target_octave, ui.a4_freq)
        target_deviation == Log2Cents(freq, target_freq)
    IN  [ui EXCEPT !.current_freq = Some(freq),
                   !.current_note = Some(nt[1]),
                   !.current_octave = Some(nt[2]),
                   !.deviation_cents = Some(target_deviation)]

\* An `else` branch that leaves the report as it is.
ReportStale(ui) == ui

\* The branch `else` of the pass.
ReportNone(ui) ==
    [ui EXCEPT !.current_freq = None,
               !.current_note = None,
               !.current_octave = None,
               !.deviation_cents = None]

\* A key handler that also clears the deviation from the target.
HandleKeyClearing(ui, key) == [ui EXCEPT !.deviation_cents = None]

\* The match on key.code, for every key but Esc.
HandleKey(ui, key) ==
    CASE key = "Left"  ->
            [ui EXCEPT !.target_note = NOTES[((NotePosition(ui.target_note) + 11) % 12) + 1]]
      [] key = "Right" ->
            [ui EXCEPT !.target_note = NOTES[((NotePosition(ui.target_note) + 1) % 12) + 1]]
      [] key = "Up"    ->
            [ui EXCEPT !.target_octave = IF ui.target_octave + 1 < 8 THEN ui.target_octave + 1 ELSE 8]
      [] key = "Down"  ->
            [ui EXCEPT !.target_octave = IF ui.target_octave - 1 > 0 THEN ui.target_octave - 1 ELSE 0]
      [] key = "Plus"  ->
            IF ui.a4_freq < 450 * FreqScale
            THEN [ui EXCEPT !.a4_freq = IF ui.a4_freq + FreqScale \div 10 < 450 * FreqScale
                                        THEN ui.a4_freq + FreqScale \div 10
                                        ELSE 450 * FreqScale]
            ELSE ui
      [] key = "Minus" ->
            IF ui.a4_freq > 432 * FreqScale
            THEN [ui EXCEPT !.a4_freq = IF ui.a4_freq - FreqScale \div 10 > 432 * FreqScale
                                        THEN ui.a4_freq - FreqScale \div 10
                                        ELSE 432 * FreqScale]
            ELSE ui
      [] OTHER -> ui

\* UiState::new()
NewUiState ==
    [current_freq |-> None, current_note |-> None, current_octave |-> None,
     deviation_cents |-> None, target_note |-> "A", target_octave |-> 4,
     a4_freq |-> 440 * FreqScale]

NoCall == [op |-> "none"]

\* main, up to the loop.
MainInit ==
    /\ sample_rate \in SampleRates
    /\ channel = <<>>
    /\ audio_buffer = <<>>
    /\ ui_state = NewUiState
    /\ pc = "poll"
    /\ sent = 0
    /\ stream = <<>>
    /\ recvd = 0
    /\ taken = 0
    /\ passes = 0
    /\ passInput = <<>>
    /\ window = <<>>
    /\ detected = None
    /\ keys = 0

Init == MainInit /\ call = NoCall /\ ret = None

\* The input callback of the stream: one block of the device, silent or not.
Capture ==
    /\ pc # "done"
    /\ sent < MaxBlocks
    /\ \E kind \in BlockKinds :
        LET samples == IF kind.silent THEN <<ZeroRun(kind.len)>>
                       ELSE <<ToneRun(SLen(stream) + 1, kind.len)>>
        IN  /\ channel' = TrySend(channel, samples)
            /\ stream' = SConcat(stream, samples)
    /\ sent' = sent + 1
    /\ UNCHANGED <<sample_rate, audio_buffer, ui_state, pc, recvd, taken, passes,
                   passInput, window, detected, keys, call, ret>>

\* terminal.draw and event::poll with no key press: on to the drain loop.
Poll ==
    /\ pc = "poll"
    /\ pc' = "drain"
    /\ UNCHANGED <<sample_rate, channel, audio_buffer, ui_state, sent, stream, recvd,
                   taken, passes, passInput, window, detected, keys, call, ret>>

\* event::poll with a key press: Esc leaves the loop (and drops the stream), any
\* other key is handled and the loop goes on to the drain loop.
KeyPress ==
    /\ pc = "poll"
    /\ keys < MaxKeys
    /\ keys' = keys + 1
    /\ \E key \in KeyCodes :
        IF key = "Esc"
        THEN /\ pc' = "done"
             /\ UNCHANGED ui_state
        ELSE /\ pc' = "drain"
             /\ ui_state' = HandleKey(ui_state, key)
    /\ UNCHANGED <<sample_rate, channel, audio_buffer, sent, stream, recvd, taken,
                   passes, passInput, window, detected, call, ret>>

\* detect_frequency(&audio_buffer) given the spectrum fft.process returns.
detect_frequency(rate, samples, spectrum) ==
    IF SLen(samples) < fft_size THEN None ELSE EstimateOf[rate][spectrum]

\* One iteration of `while let Ok(samples) = rx.try_recv()`.
DrainStep ==
    /\ pc = "drain"
    /\ TryRecv(channel) # None
    /\ \E got \in {TryRecv(channel)[1]} :
       \E extended \in {SConcat(audio_buffer, got.samples)} :
           /\ channel' = got.rest
           /\ recvd' = recvd + 1
           /\ taken' = taken + SLen(got.samples)
           /\ IF ShouldDetect(SLen(extended))
              THEN /\ passes' = passes + 1
                   /\ passInput' = extended
                   /\ window' = AnalysisWindow(extended)
                   /\ \E spectrum \in Transform(Windowed(extended)) :
                      \E found \in {detect_frequency(sample_rate, extended, spectrum)} :
                        /\ detected' = found
                        /\ ui_state' = IF found # None
                                       THEN ReportSome(ui_state, found[1])
                                       ELSE ReportNone(ui_state)
                   /\ audio_buffer' = Drained(extended)
              ELSE /\ audio_buffer' = extended
                   /\ UNCHANGED <<ui_state, passes, passInput, window, detected>>
    /\ UNCHANGED <<sample_rate, pc, sent, stream, keys, call, ret>>

\* `rx.try_recv()` finds the channel empty: the loop ends, the thread sleeps 16 ms
\* and the main loop starts over.
DrainEmpty ==
    /\ pc = "drain"
    /\ TryRecv(channel) = None
    /\ pc' = "poll"
    /\ UNCHANGED <<sample_rate, channel, audio_buffer, ui_state, sent, stream, recvd,
                   taken, passes, passInput, window, detected, keys, call, ret>>

Next == Capture \/ Poll \/ KeyPress \/ DrainStep \/ DrainEmpty

Spec == Init /\ [][Next]_vars

\* The hand-off between the callback and the drain loop on its own, no key being
\* pressed (key handling touches neither the channel nor the buffer).
HandoffNext == Capture \/ Poll \/ DrainStep \/ DrainEmpty

\* The main thread keeps running: a drain loop that can take a step takes it.
FairHandoff == Init /\ [][HandoffNext]_vars /\ WF_vars(DrainStep) /\ WF_vars(DrainEmpty)

---------------------------------------------------------------------------
(* The pitch-to-note mapper on its own: frequency_to_note and              *)
(* note_name_to_frequency applied to arguments drawn from bounded sets.    *)

\* frequency_to_note is applied to offsets of up to MaxSemitones semitones from A4.
MaxSemitones == 24

\* The octaves the target can take: main clamps target_octave to 0..8.
TargetOctaves == 0..8

\* Reference frequencies between the 432.0 and 450.0 Hz main allows.
A4Choices == {432 * FreqScale, 440 * FreqScale, 440 * FreqScale + FreqScale \div 10, 450 * FreqScale}

\* A frequency d percent above the one s semitones from a4.
Detuned(a4, s, d) == (MulPow2(a4, s) * (100 + d)) \div 100

MapperCalls ==
    {[op |-> "round_trip", note |-> NOTES[n], octave |-> o, a4 |-> a] :
        n \in 1..Len(NOTES), o \in TargetOctaves, a \in A4Choices}
    \union
    {[op |-> "frequency_to_note", frequency |-> Detuned(a, s, d), a4 |-> a] :
        s \in (0 - MaxSemitones)..MaxSemitones, d \in {-2, 0, 2}, a \in A4Choices}

MapperInit == MainInit /\ call \in MapperCalls /\ ret = None

\* frequency_to_note(note_name_to_frequency(note, octave, a4), a4)
CallRoundTrip ==
    /\ call.op = "round_trip"
    /\ ret = None
    /\ ret' = Some(frequency_to_note(
                      note_name_to_frequency(call.note, call.octave, call.a4), call.a4))
    /\ UNCHANGED <<mainVars, call>>

\* frequency_to_note(frequency, a4)
CallFrequencyToNote ==
    /\ call.op = "frequency_to_note"
    /\ ret = None
    /\ ret' = Some(frequency_to_note(call.frequency, call.a4))
    /\ UNCHANGED <<mainVars, call>>

MapperNext == CallRoundTrip \/ CallFrequencyToNote

SpecMapper == MapperInit /\ [][MapperNext]_vars

---------------------------------------------------------------------------
(* The peak estimator on its own: detect_frequency from the peak search on, *)
(* applied to spectra drawn from bounded sets.                             *)

DetectRates == {8000, 16000, 44100}

PeakBins == {0, 1, 10, 1280, 2047}

Magnitudes == {0, 1, 12, 13}

DetectCalls ==
    {[op |-> "detect_frequency", rate |-> r, bin |-> b, prev |-> p, curr |-> c, next |-> n] :
        r \in DetectRates, b \in PeakBins, p \in Magnitudes, c \in Magnitudes, n \in Magnitudes}

DetectInit == MainInit /\ call \in DetectCalls /\ ret = None

\* detect_frequency on a window whose spectrum is SpectrumAt(bin, prev, curr, next, 0);
\* ret also records the peak, the rough and the refined frequency of that spectrum.
CallDetect ==
    /\ call.op = "detect_frequency"
    /\ ret = None
    /\ LET spectrum == SpectrumAt(call.bin, call.prev, call.curr, call.next, 0)
           peak == PeakSearch(spectrum)
           rough == ScaleDiv(peak.max_bin * call.rate, fft_size)
       IN  ret' = Some([found |-> Estimate(call.rate, spectrum),
                        peak |-> peak,
                        rough |-> rough,
                        refined |-> refine_frequency(call.rate, spectrum, peak.max_bin, rough)])
    /\ UNCHANGED <<mainVars, call>>

DetectNext == CallDetect

SpecDetect == DetectInit /\ [][DetectNext]_vars

---------------------------------------------------------------------------
(* The peak search on its own: the peak loop of detect_frequency applied to *)
(* spectra whose bins are assigned independently of each other.            *)

\* The bins given a magnitude of their own: both ends of the half the loop scans,
\* the first bin after it and the last bin of the mirror half.
MarkedBins == {0, 1, 2047, 2048, 4095}

MarkMagnitudes == {0, 1, 2}

\* The magnitude of every other bin.
RestMagnitudes == {0, 1}

\* complex_samples after fft.process: `norm()` of each of the fft_size bins.
PeakSpectrum(marks, rest) ==
    [i \in 0..(fft_size - 1) |-> IF i \in DOMAIN marks THEN marks[i] ELSE rest]

PeakCalls ==
    {[op |-> "peak_search", marks |-> m, rest |-> r] :
        m \in [MarkedBins -> MarkMagnitudes], r \in RestMagnitudes}

PeakInit == MainInit /\ call \in PeakCalls /\ ret = None

\* The peak loop of detect_frequency on the spectrum of the call.
CallPeak ==
    /\ call.op = "peak_search"
    /\ ret = None
    /\ ret' = Some(PeakSearch(PeakSpectrum(call.marks, call.rest)))
    /\ UNCHANGED <<mainVars, call>>

PeakNext == CallPeak

SpecPeak == PeakInit /\ [][PeakNext]_vars

---------------------------------------------------------------------------
(* The claims.                                                             *)

\* The four fields of the report.
Report(ui) == <<ui.current_freq, ui.current_note, ui.current_octave, ui.deviation_cents>>

NoReport == <<None, None, None, None>>

\* The most recent n samples of v.
LastN(v, n) == SSub(v, SLen(v) - n + 1, SLen(v))

\* C1: frequency_to_note(note_name_to_frequency(note, octave, a4), a4) returns the
\* same note name and the same octave, for every note of NOTES, every octave and
\* every a4.
C1_RoundTrip ==
    (call.op = "round_trip" /\ ret # None) =>
        (ret[1][1] = call.note /\ ret[1][2] = call.octave)

\* C2: the octave frequency_to_note returns is 4 + floorDiv(rounded + 9, 12), the
\* division rounding toward negative infinity, for every rounded semitone offset.
C2_FloorOctave ==
    (call.op = "frequency_to_note" /\ ret # None) =>
        ret[1][2] = 4 + ((Round100(Log2Cents(call.frequency, call.a4)) + 9) \div 12)

\* C3: the window a detection pass windows and transforms is the most recent
\* fft_size samples of the buffer handed to it.
C3_WindowIsTail == passes > 0 => window = LastN(passInput, fft_size)

\* C4 as stated: from an empty buffer, blocks of 1024 samples trigger no pass in the
\* first three appends and the first pass in the fourth.
C4_FourthAppend ==
    /\ (recvd <= 3 /\ taken = 1024 * recvd) => passes = 0
    /\ (recvd = 4 /\ taken = 4 * 1024) => passes = 1

\* C4 as amended: from an empty buffer, blocks of 1024 samples trigger no pass in
\* the first four appends (4096 samples do not exceed 4096) and the first pass in
\* the fifth.
C4_FifthAppend ==
    /\ (recvd <= 4 /\ taken = 1024 * recvd) => passes = 0
    /\ (recvd = 5 /\ taken = 5 * 1024) => passes = 1

C4_Witness == recvd = 5 /\ taken = 5 * 1024 /\ passes = 1

\* C5: every step that runs a detection pass, with or without a pitch, leaves in the
\* buffer exactly the most recent 2048 samples of the buffer the pass was handed.
C5_TrimKeepsTail ==
    [][passes' = passes + 1 =>
          (SLen(audio_buffer') = 2048 /\ audio_buffer' = LastN(passInput', 2048))]_vars

C5_Witness ==
    /\ passes > 0
    /\ detected = None
    /\ SLen(passInput) > 4097
    /\ audio_buffer = LastN(passInput, 2048)

\* C6: the number of blocks pending in the channel stays within a capacity smaller
\* than the number of blocks the callback delivers (it drops what does not fit).
C6_Bounded == Len(channel) < MaxBlocks

\* C7: a step that runs no detection pass leaves the four fields of the report as
\* they are; a pass in which detect_frequency returns None sets all four to None.
C7_ReportOnlyInPass ==
    [][/\ passes' = passes => Report(ui_state') = Report(ui_state)
       /\ (passes' = passes + 1 /\ detected' = None) => Report(ui_state') = NoReport]_vars

\* A report that has outlived an append which triggered no pass, and a key press.
C7_Witness ==
    /\ passes > 0
    /\ keys > 0
    /\ SLen(audio_buffer) > 2048
    /\ ui_state.current_freq # None

\* C8: a frequency detect_frequency returns lies strictly between 20 and 5000 Hz, and
\* a refined frequency (or a rough one, when refinement is skipped) of at most 20 or
\* at least 5000 Hz is returned as None.
C8_StrictRange ==
    (call.op = "detect_frequency" /\ ret # None) =>
        /\ ret[1].found # None =>
              (ret[1].found[1] > 20 * FreqScale /\ ret[1].found[1] < 5000 * FreqScale)
        /\ (ret[1].refined <= 20 * FreqScale \/ ret[1].refined >= 5000 * FreqScale) =>
              ret[1].found = None

\* A frequency returned after refinement moved it off the centre of its bin.
C8_Witness ==
    /\ call.op = "detect_frequency"
    /\ ret # None
    /\ ret[1].found # None
    /\ ret[1].refined # ret[1].rough

\* C9: a pass whose window is all zeros finds no pitch and leaves a report with no
\* frequency, no note, no octave and no deviation.
C9_Silence ==
    (passes > 0 /\ SAllZero(window)) => (detected = None /\ Report(ui_state) = NoReport)

C9_Witness == passes > 1 /\ SLen(window) = fft_size /\ SAllZero(window)

\* C10: the drain loop always has a step to take (a receive never waits); it is left
\* only by a receive that finds the channel empty, and then every block enqueued so
\* far has been received; the buffer ends with the samples received, in the order
\* they were enqueued; and a drain loop that has started ends.
C10_Drain ==
    /\ [](pc = "drain" => ENABLED (DrainStep \/ DrainEmpty))
    /\ [][(pc = "drain" /\ pc' # "drain") =>
             (channel = <<>> /\ recvd = sent /\ taken = SLen(stream))]_vars
    /\ [](audio_buffer = LastN(SSub(stream, 1, taken), SLen(audio_buffer)))
    /\ ((pc = "drain") ~> (pc = "poll"))

\* A drain loop has ended after at least two blocks were received.
C10_Witness == pc = "poll" /\ sent >= 2 /\ recvd = sent /\ channel = <<>>

\* C11: the bin the peak search returns lies in [0, fft_size / 2), no bin of that
\* half has a greater magnitude, and every lower bin has a smaller one (the first of
\* the bins that share the maximum is returned), whatever the other half holds.
C11_FirstMaximum ==
    (call.op = "peak_search" /\ ret # None) =>
        LET mags == PeakSpectrum(call.marks, call.rest)
            half == 0..(fft_size \div 2 - 1)
            max_bin == ret[1].max_bin
        IN  /\ max_bin \in half
            /\ ret[1].max_magnitude = mags[max_bin]
            /\ \A i \in half : mags[i] <= mags[max_bin]
            /\ \A i \in half : i < max_bin => mags[i] < mags[max_bin]

\* The maximum of the scanned half is shared by its first and last bin, and the
\* other half holds greater magnitudes.
C11_Witness ==
    /\ call.op = "peak_search"
    /\ ret # None
    /\ ret[1].max_bin = 0
    /\ call.marks[0] = 1
    /\ call.marks[2047] = 1
    /\ call.marks[2048] = 2
    /\ call.marks[4095] = 2

\* C12: between two steps of the drain loop the buffer holds at most 4096 samples;
\* while a block is processed the buffer (the one handed to the pass, if a pass
\* runs) holds at most 4096 samples plus the block; and a step that runs a pass
\* leaves exactly 2048 samples.
C12_BufferBounded ==
    /\ [](SLen(audio_buffer) <= 4096)
    /\ [][recvd' = recvd + 1 =>
             LET block == taken' - taken
                 extended == IF passes' = passes + 1 THEN passInput' ELSE audio_buffer'
             IN  /\ SLen(extended) = SLen(audio_buffer) + block
                 /\ SLen(extended) <= 4096 + block]_vars
    /\ [][passes' = passes + 1 => SLen(audio_buffer') = 2048]_vars

\* After a pass on 4098 samples the buffer has grown back to 4096 samples, which
\* trigger no pass.
C12_Witness ==
    /\ passes = 1
    /\ SLen(passInput) = 4098
    /\ SLen(audio_buffer) = 4096

=============================================================================
